---- MODULE Spec2Model ----
(***************************************************************************)
(* A model of doppler.py: the Doppler arithmetic, the channel table, the   *)
(* channel switch times, the search for the next high pass and the         *)
(* averaging loop of main.                                                 *)
(*                                                                         *)
(* Python floats are modelled by exact rationals [n |-> numerator,         *)
(* d |-> denominator > 0] in lowest terms, so that every equality below is *)
(* an equality "in exact arithmetic".  The orbit library (ephem) is an     *)
(* oracle: each call of sat.compute / obs.next_pass draws its answer from  *)
(* a small set.                                                            *)
(***************************************************************************)
EXTENDS Integers, Sequences, FiniteSets, TLC

VARIABLES convert_call, channel_call, freqs_call, graph_call, times_call,
          pass_call, main_call

vars == <<convert_call, channel_call, freqs_call, graph_call, times_call,
          pass_call, main_call>>

\* A function of the module that a specification does not exercise.
Idle == [pc |-> "idle"]

(***************************************************************************)
(* Exact arithmetic standing for the float operators + - * / // abs < .    *)
(***************************************************************************)
Abs(x) == IF x < 0 THEN -x ELSE x

RECURSIVE GCD(_, _)
GCD(a, b) == IF b = 0 THEN a ELSE GCD(b, a % b)

\* n/d in lowest terms with a positive denominator (d # 0).
Rat(n, d) ==
    LET g == GCD(Abs(n), Abs(d))
        s == IF d < 0 THEN -1 ELSE 1
    IN  [n |-> s * (n \div g), d |-> s * (d \div g)]

Num(k) == [n |-> k, d |-> 1]

RAdd(a, b) ==
    LET g == GCD(a.d, b.d)
    IN  Rat(a.n * (b.d \div g) + b.n * (a.d \div g), (a.d \div g) * b.d)

RNeg(a) == [n |-> -a.n, d |-> a.d]

RSub(a, b) == RAdd(a, RNeg(b))

RMul(a, b) ==
    LET g1 == GCD(Abs(a.n), b.d)
        g2 == GCD(Abs(b.n), a.d)
    IN  [n |-> (a.n \div g1) * (b.n \div g2), d |-> (a.d \div g2) * (b.d \div g1)]

\* a / b for b # 0 (Python raises ZeroDivisionError otherwise; the callers
\* below test for it before dividing).
RDiv(a, b) ==
    RMul(a, IF b.n < 0 THEN [n |-> -b.d, d |-> -b.n] ELSE [n |-> b.d, d |-> b.n])

RLess(a, b) ==
    LET g == GCD(a.d, b.d)
    IN  a.n * (b.d \div g) < b.n * (a.d \div g)

RLeq(a, b) == ~RLess(b, a)

RAbs(a) == [n |-> Abs(a.n), d |-> a.d]

\* int(a // b) for b > 0: the floor of the quotient.
RFloorDiv(a, b) == LET q == RDiv(a, b) IN q.n \div q.d

(***************************************************************************)
(* Module constants, lines 5-8.                                            *)
(***************************************************************************)
C == 299792458
HOUR == RDiv(Num(1), Num(24))
MINUTE == RDiv(HOUR, Num(60))
SECOND == RDiv(MINUTE, Num(60))
\* The literal 1_000_000 that converts between MHz and Hz.
MHZ == 1000000

(***************************************************************************)
(* doppler_shift(f0, vel), lines 21-26.  vel # -C.                         *)
(***************************************************************************)
doppler_shift(f0, vel) ==
    LET f0_hz == RMul(f0, Num(MHZ))
        f     == RMul(RDiv(Num(C), RAdd(Num(C), vel)), f0_hz)
        shift == RSub(f0_hz, f)
    IN  shift

(***************************************************************************)
(* doppler_convert(f_orig, f_shift, f_new), lines 58-66.  f_orig # 0.      *)
(***************************************************************************)
doppler_convert_unscaled(f_orig, f_shift, f_new) ==
    LET f_orig_hz     == RMul(f_orig, Num(MHZ))
        f             == RAdd(f_orig_hz, f_shift)
        doppler_const == RDiv(f, f_orig_hz)
        f_new_shift   == RMul(doppler_const, f_new)
        new_shift     == RSub(f_new_shift, f_new)
    IN  new_shift

doppler_convert(f_orig, f_shift, f_new) ==
    LET f_orig_hz     == RMul(f_orig, Num(MHZ))
        f_new_hz      == RMul(f_new, Num(MHZ))
        f             == RAdd(f_orig_hz, f_shift)
        doppler_const == RDiv(f, f_orig_hz)
        f_new_shift   == RMul(doppler_const, f_new_hz)
        new_shift     == RSub(f_new_shift, f_new_hz)
    IN  new_shift

(***************************************************************************)
(* Inputs.  Velocities are whole multiples of C/14, for which C/(C + vel)  *)
(* is a ratio of small integers; |vel| < C.                                *)
(***************************************************************************)
MaxVel == 3
VelUnit == C \div 14
Vels == { Num(k * VelUnit) : k \in -MaxVel..MaxVel }

\* Frequencies in MHz: 21.0, 29.0, 29.4 and 50.0.
Freqs == { Num(21), Num(29), Rat(147, 5), Num(50) }

(***************************************************************************)
(* Carrying a shift from one frequency to another.                         *)
(***************************************************************************)
ConvertInit ==
    /\ convert_call \in [pc : {"call"}, f_orig : Freqs, f_new : Freqs, vel : Vels,
                         f_shift : {Num(0)}, new_shift : {Num(0)}]
    /\ channel_call = Idle /\ freqs_call = Idle /\ graph_call = Idle
    /\ times_call = Idle /\ pass_call = Idle /\ main_call = Idle

\* f_shift = doppler_shift(f_orig, vel), then the shift is carried to f_new.
Convert ==
    /\ convert_call.pc = "call"
    /\ LET s == doppler_shift(convert_call.f_orig, convert_call.vel)
       IN  convert_call' = [convert_call EXCEPT
               !.pc = "done",
               !.f_shift = s,
               !.new_shift = doppler_convert(convert_call.f_orig, s, convert_call.f_new)]
    /\ UNCHANGED <<channel_call, freqs_call, graph_call, times_call, pass_call, main_call>>

ConvertNext == Convert

ConvertSpec == ConvertInit /\ [][ConvertNext]_vars

\* C7: the shift carried from f_orig to f_new is the shift the Doppler formula
\* gives for f_new at the same velocity; it is f_shift * f_new / f_orig, and it
\* is f_shift itself when f_new = f_orig.
ConvertConsistent ==
    convert_call.pc = "done" =>
        /\ convert_call.new_shift = doppler_shift(convert_call.f_new, convert_call.vel)
        /\ convert_call.new_shift =
               RMul(convert_call.f_shift, RDiv(convert_call.f_new, convert_call.f_orig))
        /\ (convert_call.f_new = convert_call.f_orig =>
               convert_call.new_shift = convert_call.f_shift)

\* A non-zero shift has been carried to a different frequency.
ConvertWitness ==
    /\ convert_call.pc = "done"
    /\ convert_call.f_new # convert_call.f_orig
    /\ convert_call.f_shift.n # 0
    /\ convert_call.new_shift # convert_call.f_shift

(***************************************************************************)
(* best_channel(freq, mems), lines 170-179.  mems is a list of [rx, tx];   *)
(* the result is a Python (0-based) index, -1 for an empty list.           *)
(***************************************************************************)
closer_or_equal(diff, best_diff, best) == RLeq(diff, best_diff) \/ best = -1

\* The test of line 175.
closer(diff, best_diff, best) == RLess(diff, best_diff) \/ best = -1

RECURSIVE best_channel_loop(_, _, _, _, _)
best_channel_loop(freq, mems, i, best, best_diff) ==
    IF i >= Len(mems)
    THEN best
    ELSE LET diff == RAbs(RSub(mems[i + 1][1], freq))
         IN  IF closer(diff, best_diff, best)
             THEN best_channel_loop(freq, mems, i + 1, i, diff)
             ELSE best_channel_loop(freq, mems, i + 1, best, best_diff)

best_channel(freq, mems) == best_channel_loop(freq, mems, 0, -1, Num(0))

(***************************************************************************)
(* Choosing the nearest channel.                                           *)
(***************************************************************************)
MaxMems == 3

\* Receive frequencies of stored channels, MHz.
ChannelRx == { Num(27), Num(28), Num(30) }

\* Frequencies looked up, MHz: 26.0, 28.5, 29.0 (midway between two
\* channels) and 31.0.
LookupFreqs == { Num(26), Rat(57, 2), Num(29), Num(31) }

MemTables(rxs, tx, len) ==
    UNION { [1..k -> { <<rx, tx>> : rx \in rxs }] : k \in 1..len }

ChannelInit ==
    /\ channel_call \in [pc : {"call"}, freq : LookupFreqs,
                         mems : MemTables(ChannelRx, Num(0), MaxMems), best : {-1}]
    /\ convert_call = Idle /\ freqs_call = Idle /\ graph_call = Idle
    /\ times_call = Idle /\ pass_call = Idle /\ main_call = Idle

Channel ==
    /\ channel_call.pc = "call"
    /\ channel_call' = [channel_call EXCEPT
           !.pc = "done",
           !.best = best_channel(channel_call.freq, channel_call.mems)]
    /\ UNCHANGED <<convert_call, freqs_call, graph_call, times_call, pass_call, main_call>>

ChannelNext == Channel

ChannelSpec == ChannelInit /\ [][ChannelNext]_vars

\* Distance of channel j (0-based) of the call from the frequency looked up.
ChannelDiff(j) == RAbs(RSub(channel_call.mems[j + 1][1], channel_call.freq))

\* C2: for a non-empty mems, best_channel returns an index of mems whose
\* receive frequency is at least as close to freq as every other channel's,
\* and the lowest such index.
BestChannelNearest ==
    channel_call.pc = "done" =>
        /\ channel_call.best \in 0..(Len(channel_call.mems) - 1)
        /\ \A j \in 0..(Len(channel_call.mems) - 1) :
               RLeq(ChannelDiff(channel_call.best), ChannelDiff(j))
        /\ \A j \in 0..(channel_call.best - 1) :
               RLess(ChannelDiff(channel_call.best), ChannelDiff(j))

\* A lookup where two different channels are equally close and nearest, and
\* the one returned is not the first of the table.
BestChannelWitness ==
    /\ channel_call.pc = "done"
    /\ channel_call.best > 0
    /\ \E j \in 0..(Len(channel_call.mems) - 1) :
           /\ j > channel_call.best
           /\ channel_call.mems[j + 1] # channel_call.mems[channel_call.best + 1]
           /\ ChannelDiff(j) = ChannelDiff(channel_call.best)

(***************************************************************************)
(* compute_doppler(obs, sat, rx_freq, tx_freq), lines 84-90.  velocity is  *)
(* sat.range_velocity as sat.compute(obs) left it.  Returns a 2-tuple.     *)
(***************************************************************************)
compute_doppler(velocity, rx_freq, tx_freq) ==
    LET tx_shift == doppler_shift(tx_freq, velocity)
        rx_shift == doppler_shift(rx_freq, RMul(Num(-1), velocity))
    IN  <<rx_shift, tx_shift>>

\* rx_freq + shift / 1_000_000: a shift in Hz added to a frequency in MHz.
Shifted(freq, shift) == RAdd(freq, RDiv(shift, Num(MHZ)))

(***************************************************************************)
(* Dates are days, as ephem.Date; the passes start and end on a grid of    *)
(* half seconds so that a pass need not last a whole number of seconds.    *)
(***************************************************************************)
MaxSeconds == 3
HalfSeconds(h) == RMul(Num(h), RDiv(SECOND, Num(2)))
StartDates == { HalfSeconds(0), HalfSeconds(1) }
PassLengths == { HalfSeconds(h) : h \in 0..(2 * MaxSeconds + 1) }

\* Velocities the library reports during a pass.
PassVels == { Num(k * VelUnit) : k \in -1..1 }

\* Velocities the library reports at the two ends of a pass.
EndVels == { Num(k * VelUnit) : k \in -2..2 }

(***************************************************************************)
(* compute_doppler_freqs, lines 114-132.  v_aos and v_los are the range    *)
(* velocities the library reports at AOS and at LOS.                       *)
(***************************************************************************)
MaxChannels == 3

compute_doppler_freqs(v_aos, v_los, channels, rx_freq, tx_freq) ==
    LET start == compute_doppler(v_aos, rx_freq, tx_freq)
        end   == compute_doppler(v_los, rx_freq, tx_freq)
    IN  IF channels - 1 = 0
        THEN [raised |-> "ZeroDivisionError", mems |-> <<>>]
        ELSE LET rx_interval == RDiv(RSub(end[1], start[1]), Num(channels - 1))
                 tx_interval == RDiv(RSub(end[2], start[2]), Num(channels - 1))
             IN  [raised |-> "",
                  mems |-> [ k \in 1..channels |->
                      LET interval == k - 1
                          shift_rx == RAdd(start[1], RMul(rx_interval, Num(interval)))
                          shift_tx == RAdd(start[2], RMul(tx_interval, Num(interval)))
                      IN  <<Shifted(rx_freq, shift_rx), Shifted(tx_freq, shift_tx)>> ]]

FreqsInit ==
    /\ freqs_call \in [pc : {"call"}, AOS : {HalfSeconds(0)}, LOS : PassLengths,
                       channels : 1..MaxChannels,
                       rx_freq : {Num(29), Rat(147, 5)}, tx_freq : {Num(0), Num(21)},
                       obs_date : {HalfSeconds(0)}, v_aos : {Num(0)}, v_los : {Num(0)},
                       raised : {""}, mems : {<<>>}]
    /\ convert_call = Idle /\ channel_call = Idle /\ graph_call = Idle
    /\ times_call = Idle /\ pass_call = Idle /\ main_call = Idle

FreqsCall ==
    /\ freqs_call.pc = "call"
    /\ \E v_aos \in EndVels, v_los \in EndVels :
           LET r == compute_doppler_freqs(v_aos, v_los, freqs_call.channels,
                                          freqs_call.rx_freq, freqs_call.tx_freq)
           IN  freqs_call' = [freqs_call EXCEPT
                   !.pc = "done", !.obs_date = freqs_call.LOS,
                   !.v_aos = v_aos, !.v_los = v_los,
                   !.raised = r.raised, !.mems = r.mems]
    /\ UNCHANGED <<convert_call, channel_call, graph_call, times_call, pass_call, main_call>>

FreqsNext == FreqsCall

FreqsSpec == FreqsInit /\ [][FreqsNext]_vars

\* The [rx, tx] pair: the base frequencies plus the shifts at velocity v.
ShiftedPair(v, rx_freq, tx_freq) ==
    LET d == compute_doppler(v, rx_freq, tx_freq)
    IN  <<Shifted(rx_freq, d[1]), Shifted(tx_freq, d[2])>>

\* C3: for every channel count n >= 1 compute_doppler_freqs returns exactly n
\* [rx, tx] entries, the first the base frequencies plus the shifts at AOS, and
\* for n >= 2 the last the base frequencies plus the shifts at LOS, consecutive
\* entries differing by the same step (end_shift - start_shift) / (n - 1).
FreqsTableInterpolates ==
    freqs_call.pc = "done" =>
        LET n  == freqs_call.channels
            m  == freqs_call.mems
            a  == ShiftedPair(freqs_call.v_aos, freqs_call.rx_freq, freqs_call.tx_freq)
            b  == ShiftedPair(freqs_call.v_los, freqs_call.rx_freq, freqs_call.tx_freq)
        IN  /\ freqs_call.raised = ""
            /\ Len(m) = n
            /\ m[1] = a
            /\ n >= 2 =>
                 /\ m[n] = b
                 /\ \A k \in 1..(n - 1) : \A c \in 1..2 :
                        RSub(m[k + 1][c], m[k][c]) = RDiv(RSub(b[c], a[c]), Num(n - 1))

(***************************************************************************)
(* compute_shift_graph, lines 154-164, one iteration of the loop a step.   *)
(* sampled is the history of the velocities the library reported.          *)
(***************************************************************************)
GraphInit ==
    /\ \E a \in StartDates, len \in PassLengths,
          rx \in {Num(29), Rat(147, 5)}, tx \in {Num(0), Num(21)} :
           graph_call = [pc |-> "loop", AOS |-> a, LOS |-> RAdd(a, len),
                         rx_freq |-> rx, tx_freq |-> tx,
                         out_data |-> <<>>,
                         intervals |-> RFloorDiv(RSub(RAdd(a, len), a), SECOND),
                         i |-> 0, obs_date |-> a, sampled |-> <<>>, raised |-> ""]
    /\ convert_call = Idle /\ channel_call = Idle /\ freqs_call = Idle
    /\ times_call = Idle /\ pass_call = Idle /\ main_call = Idle

\* Lines 160-162.  The call returns two values and the assignment names
\* three targets: unpacking raises ValueError.
GraphIter ==
    /\ graph_call.pc = "loop"
    /\ graph_call.i < graph_call.intervals
    /\ \E velocity \in PassVels :
           LET date == RAdd(graph_call.AOS, RMul(Num(graph_call.i), SECOND))
               ret  == compute_doppler(velocity, graph_call.rx_freq, graph_call.tx_freq)
           IN  IF Len(ret) # 3
               THEN graph_call' = [graph_call EXCEPT
                        !.pc = "raised", !.raised = "ValueError", !.obs_date = date,
                        !.sampled = Append(@, velocity)]
               ELSE graph_call' = [graph_call EXCEPT
                        !.obs_date = date,
                        !.sampled = Append(@, velocity),
                        !.out_data = Append(@, <<graph_call.i, ret[1], ret[2]>>),
                        !.i = @ + 1]
    /\ UNCHANGED <<convert_call, channel_call, freqs_call, times_call, pass_call, main_call>>

GraphReturn ==
    /\ graph_call.pc = "loop"
    /\ graph_call.i >= graph_call.intervals
    /\ graph_call' = [graph_call EXCEPT !.pc = "done"]
    /\ UNCHANGED <<convert_call, channel_call, freqs_call, times_call, pass_call, main_call>>

GraphNext == GraphIter \/ GraphReturn

GraphSpec == GraphInit /\ [][GraphNext]_vars

\* C6: for a pass with AOS <= LOS compute_shift_graph returns one tuple
\* (i, rx_shift, tx_shift) for each whole second i of the pass, in increasing
\* order of i, the shifts being those compute_doppler yields at AOS + i seconds.
GraphOnePerSecond ==
    graph_call.pc \in {"done", "raised"} =>
        LET n == RFloorDiv(RSub(graph_call.LOS, graph_call.AOS), SECOND)
        IN  /\ graph_call.pc = "done"
            /\ Len(graph_call.out_data) = n
            /\ Len(graph_call.sampled) = n
            /\ \A k \in 1..n :
                   LET d == compute_doppler(graph_call.sampled[k],
                                            graph_call.rx_freq, graph_call.tx_freq)
                   IN  graph_call.out_data[k] = <<k - 1, d[1], d[2]>>

(***************************************************************************)
(* compute_shift_times, lines 201-217, one iteration of the loop a step.   *)
(* A switch entry is [curr_mem, obs.date, shifted_rx, shifted_tx].         *)
(***************************************************************************)
\* Channel tables handed to compute_shift_times, MHz.
TimesRx == { Num(27), Num(29), Num(31) }

\* The test of line 213.
should_switch(curr_mem, best_mem, mems) ==
    curr_mem < Len(mems) - 1 /\ curr_mem # best_mem

TimesInit ==
    /\ \E a \in StartDates, len \in PassLengths,
          m \in MemTables(TimesRx, Num(0), MaxMems) :
           times_call = [pc |-> "loop", AOS |-> a, LOS |-> RAdd(a, len), mems |-> m,
                         rx_freq |-> Num(29), tx_freq |-> Num(0),
                         switch_times |-> <<>>, curr_mem |-> -1,
                         intervals |-> RFloorDiv(RSub(RAdd(a, len), a), SECOND),
                         i |-> 0, obs_date |-> a,
                         shifted_rx |-> Num(0), shifted_tx |-> Num(0), best_mem |-> -1]
    /\ convert_call = Idle /\ channel_call = Idle /\ freqs_call = Idle
    /\ graph_call = Idle /\ pass_call = Idle /\ main_call = Idle

\* Lines 208-215: the body of the loop at second i, the library reporting
\* `velocity` at that date.
shift_times_body(velocity, i, AOS, mems, rx_freq, tx_freq, curr_mem, switch_times) ==
    LET date       == RAdd(AOS, RMul(Num(i), SECOND))
        ret        == compute_doppler(velocity, rx_freq, tx_freq)
        shifted_rx == Shifted(rx_freq, ret[1])
        shifted_tx == Shifted(tx_freq, ret[2])
        best_mem   == best_channel(shifted_rx, mems)
        switch     == should_switch(curr_mem, best_mem, mems)
    IN  [obs_date |-> date, shifted_rx |-> shifted_rx, shifted_tx |-> shifted_tx,
         best_mem |-> best_mem,
         curr_mem |-> IF switch THEN best_mem ELSE curr_mem,
         switch_times |->
             IF switch
             THEN Append(switch_times, <<best_mem, date, shifted_rx, shifted_tx>>)
             ELSE switch_times]

TimesIter ==
    /\ times_call.pc = "loop"
    /\ times_call.i < times_call.intervals
    /\ \E velocity \in PassVels :
           LET b == shift_times_body(velocity, times_call.i, times_call.AOS,
                                     times_call.mems, times_call.rx_freq,
                                     times_call.tx_freq, times_call.curr_mem,
                                     times_call.switch_times)
           IN  times_call' = [times_call EXCEPT
                   !.obs_date = b.obs_date,
                   !.shifted_rx = b.shifted_rx,
                   !.shifted_tx = b.shifted_tx,
                   !.best_mem = b.best_mem,
                   !.curr_mem = b.curr_mem,
                   !.switch_times = b.switch_times,
                   !.i = @ + 1]
    /\ UNCHANGED <<convert_call, channel_call, freqs_call, graph_call, pass_call, main_call>>

TimesReturn ==
    /\ times_call.pc = "loop"
    /\ times_call.i >= times_call.intervals
    /\ times_call' = [times_call EXCEPT !.pc = "done"]
    /\ UNCHANGED <<convert_call, channel_call, freqs_call, graph_call, pass_call, main_call>>

TimesNext == TimesIter \/ TimesReturn

TimesSpec == TimesInit /\ [][TimesNext]_vars

\* C1: the pass is walked one whole second at a time, and at every second at
\* which the channel nearest the shifted receive frequency differs from the
\* current channel a switch entry for that second is appended and that channel
\* becomes the current one, also after the last channel of mems was selected.
SwitchOnEveryChange ==
    [][ times_call'.pc = "loop" =>
          /\ times_call'.i = times_call.i + 1
          /\ times_call.i < RFloorDiv(RSub(times_call.LOS, times_call.AOS), SECOND)
          /\ times_call'.obs_date = RAdd(times_call.AOS, RMul(Num(times_call.i), SECOND))
          /\ times_call'.best_mem = best_channel(times_call'.shifted_rx, times_call.mems)
          /\ IF times_call'.best_mem # times_call.curr_mem
             THEN /\ times_call'.curr_mem = times_call'.best_mem
                  /\ times_call'.switch_times =
                         Append(times_call.switch_times,
                                <<times_call'.best_mem, times_call'.obs_date,
                                  times_call'.shifted_rx, times_call'.shifted_tx>>)
             ELSE /\ times_call'.curr_mem = times_call.curr_mem
                  /\ times_call'.switch_times = times_call.switch_times
      ]_vars

(***************************************************************************)
(* next_high_pass, lines 234-245, one iteration of the loop a step.        *)
(*                                                                         *)
(* obs.next_pass(sat) answers with the tuple (rise time, rise azimuth,     *)
(* time of maximum, maximum altitude, set time, set azimuth) of the next   *)
(* pass after obs.date, or raises.  Angles are radians, carried as the     *)
(* rational multiple of pi they are, so that  x * 360 / (2 * math.pi)  is  *)
(* exact.  calls counts the calls of obs.next_pass, checked lists the      *)
(* passes it reported and limit_arg keeps the limit argument.              *)
(***************************************************************************)
None == <<>>
Unbound == <<"unbound">>

MaxLimit == 2
MaxCalls == 4

\* Maximum altitudes of a pass: 2.5, 5, 10 and 45 degrees, in units of pi.
Altitudes == { Rat(1, 72), Rat(1, 36), Rat(1, 18), Rat(1, 4) }

\* Time from obs.date to the rise of the next pass.
Gaps == { HOUR, RMul(Num(2), HOUR) }

\* The pass the library reports when asked at `date`: it rises `gap` later,
\* lasts `length` and culminates at altitude `alt` midway.
LibraryPass(date, gap, alt, length) ==
    LET rise == RAdd(date, gap)
    IN  <<rise, Num(0), RAdd(rise, RDiv(length, Num(2))), alt,
          RAdd(rise, length), Num(1)>>

\* (next_pass[3] * 360) / (2 * math.pi), line 239.
to_degrees(alt) == RDiv(RMul(alt, Num(360)), Num(2))

loop_condition_inclusive(elevation, min_elevation, limit) ==
    RLeq(elevation, min_elevation) /\ limit > 0

\* The loop condition of line 237.
loop_condition(elevation, min_elevation, limit) ==
    RLess(elevation, min_elevation) /\ limit > 0

\* limit -= 0, line 241.
next_limit(limit) == limit - 0

PassInit ==
    /\ \E min \in {Num(-5), Num(0), Num(5), Num(10)}, lim \in 0..MaxLimit :
           pass_call = [pc |-> "loop", min_elevation |-> min, limit_arg |-> lim,
                        limit |-> lim, elevation |-> Num(0), next_pass |-> Unbound,
                        obs_date |-> Num(0), calls |-> 0, checked |-> <<>>,
                        result |-> None]
    /\ convert_call = Idle /\ channel_call = Idle /\ freqs_call = Idle
    /\ graph_call = Idle /\ times_call = Idle /\ main_call = Idle

\* Lines 238-241, the library answering with a pass.
PassIter ==
    /\ pass_call.pc = "loop"
    /\ loop_condition(pass_call.elevation, pass_call.min_elevation, pass_call.limit)
    /\ pass_call.calls < MaxCalls
    /\ \E gap \in Gaps, alt \in Altitudes :
           LET next_pass == LibraryPass(pass_call.obs_date, gap, alt, RMul(Num(10), MINUTE))
           IN  pass_call' = [pass_call EXCEPT
                   !.next_pass = next_pass,
                   !.elevation = to_degrees(next_pass[4]),
                   !.obs_date = next_pass[5],
                   !.limit = next_limit(@),
                   !.calls = @ + 1,
                   !.checked = Append(@, next_pass)]
    /\ UNCHANGED <<convert_call, channel_call, freqs_call, graph_call, times_call, main_call>>

\* Line 238 raising: the bare except of lines 244-245 returns None.
PassRaise ==
    /\ pass_call.pc = "loop"
    /\ loop_condition(pass_call.elevation, pass_call.min_elevation, pass_call.limit)
    /\ pass_call.calls < MaxCalls
    /\ pass_call' = [pass_call EXCEPT !.pc = "done", !.result = None, !.calls = @ + 1]
    /\ UNCHANGED <<convert_call, channel_call, freqs_call, graph_call, times_call, main_call>>

\* Line 243.  Reading next_pass before the loop ever assigned it raises
\* UnboundLocalError, which the bare except turns into None.
PassReturn ==
    /\ pass_call.pc = "loop"
    /\ ~loop_condition(pass_call.elevation, pass_call.min_elevation, pass_call.limit)
    /\ pass_call' = [pass_call EXCEPT
           !.pc = "done",
           !.result = IF pass_call.next_pass = Unbound THEN None
                      ELSE IF pass_call.limit > 0 THEN pass_call.next_pass ELSE None]
    /\ UNCHANGED <<convert_call, channel_call, freqs_call, graph_call, times_call, main_call>>

PassNext == PassIter \/ PassRaise \/ PassReturn

PassSpec == PassInit /\ [][PassNext]_vars

\* Whether the k-th pass the library reported reaches min_elevation.
Reaches(k) == RLeq(pass_call.min_elevation, to_degrees(pass_call.checked[k][4]))

\* C4: for every limit >= 1 next_high_pass calls obs.next_pass at most limit
\* times and then returns, with None when none of those passes reaches
\* min_elevation.
PassWithinLimit ==
    pass_call.limit_arg >= 1 =>
        /\ pass_call.calls <= pass_call.limit_arg
        /\ (pass_call.calls = pass_call.limit_arg
               /\ \A k \in 1..Len(pass_call.checked) : ~Reaches(k))
              => \/ pass_call.pc = "done" /\ pass_call.result = None
                 \/ /\ pass_call.pc = "loop"
                    /\ ~loop_condition(pass_call.elevation, pass_call.min_elevation,
                                       pass_call.limit)

RECURSIVE shift_times_loop(_, _, _, _, _, _, _, _, _)
shift_times_loop(vels, i, intervals, AOS, mems, rx_freq, tx_freq, curr_mem, switch_times) ==
    IF i >= intervals
    THEN switch_times
    ELSE LET b == shift_times_body(vels[i + 1], i, AOS, mems, rx_freq, tx_freq,
                                   curr_mem, switch_times)
         IN  shift_times_loop(vels, i + 1, intervals, AOS, mems, rx_freq, tx_freq,
                              b.curr_mem, b.switch_times)

compute_shift_times(vels, AOS, LOS, mems, rx_freq, tx_freq) ==
    shift_times_loop(vels, 0, RFloorDiv(RSub(LOS, AOS), SECOND), AOS, mems,
                     rx_freq, tx_freq, -1, <<>>)

\* An answer of obs.next_pass: a pass, or an exception.
Answer(raises, alt) == [raises |-> raises, gap |-> HOUR, alt |-> alt]

\* next_high_pass on the library's successive answers.  returned is FALSE when
\* the loop is still running after the last of them.
RECURSIVE next_high_pass_loop(_, _, _, _, _, _, _)
next_high_pass_loop(answers, length, obs_date, min_elevation, limit, elevation, next_pass) ==
    IF ~loop_condition(elevation, min_elevation, limit)
    THEN [returned |-> TRUE, obs_date |-> obs_date,
          result |-> IF next_pass = Unbound THEN None
                     ELSE IF limit > 0 THEN next_pass ELSE None]
    ELSE IF answers = <<>>
    THEN [returned |-> FALSE, obs_date |-> obs_date, result |-> None]
    ELSE IF Head(answers).raises
    THEN [returned |-> TRUE, obs_date |-> obs_date, result |-> None]
    ELSE LET np == LibraryPass(obs_date, Head(answers).gap, Head(answers).alt, length)
         IN  next_high_pass_loop(Tail(answers), length, np[5], min_elevation,
                                 next_limit(limit), to_degrees(np[4]), np)

next_high_pass(answers, length, obs_date, min_elevation, limit) ==
    next_high_pass_loop(answers, length, obs_date, min_elevation, limit, Num(0), Unbound)

(***************************************************************************)
(* main, lines 383-436: the loop over the transmitters.  The state starts  *)
(* at line 383, the observer, the satellite, the transmitters and the two  *)
(* counts read.  pc: "transmitter" line 383, "tests" line 393, "check"     *)
(* line 402 after the break of line 400, "times" line 423; "crashed" is an *)
(* uncaught exception, "hung" a call of next_high_pass that never returns. *)
(* tables counts the "Recommended Memory Channels" tables printed.         *)
(***************************************************************************)
MaxTests == 2

\* Transmitters as [uplink, downlink], MHz; uplink 0.0 is "not found".
TransmitterLists ==
    { <<>>,
      << [uplink |-> Num(0), downlink |-> Num(29)] >>,
      << [uplink |-> Num(21), downlink |-> Num(29)],
         [uplink |-> Num(0), downlink |-> Rat(147, 5)] >> }

\* What the library answers to one call of next_high_pass from main: a high
\* pass, a low pass then a high one, an exception, low passes only.
MainAnswers ==
    { << Answer(FALSE, Rat(1, 4)) >>,
      << Answer(FALSE, Rat(1, 36)), Answer(FALSE, Rat(1, 4)) >>,
      << Answer(TRUE, Rat(1, 4)) >>,
      << Answer(FALSE, Rat(1, 36)), Answer(FALSE, Rat(1, 36)) >> }

\* The passes main sees last one second and a half.
MainPassLength == HalfSeconds(3)

\* Range velocities at AOS (approaching) and at LOS (receding).
MainAosVels == { Num(VelUnit), Num(2 * VelUnit) }
MainLosVels == { Num(-VelUnit) }

\* The default arguments of next_high_pass, line 234, and line 386.
main_min_elevation == Num(10)
default_limit == 25

\* memory_sets[s][c][side] summed over the sets, lines 405-409.
RECURSIVE SumSets(_, _, _)
SumSets(memory_sets, c, side) ==
    IF memory_sets = <<>> THEN Num(0)
    ELSE RAdd(SumSets(Tail(memory_sets), c, side), Head(memory_sets)[c][side])

\* Lines 405-418: the sums divided by total_tests (total_tests # 0).
average_memory(memory_sets, channels, total_tests) ==
    [ c \in 1..channels |->
        << RDiv(SumSets(memory_sets, c, 1), Num(total_tests)),
           RDiv(SumSets(memory_sets, c, 2), Num(total_tests)) >> ]

no_second_break(next_pass) == FALSE

\* The test of line 402.
second_break(next_pass) == next_pass = None

MainInit ==
    /\ \E trs \in TransmitterLists, ch \in 1..MaxChannels, tests \in 0..MaxTests :
           main_call = [pc |-> "transmitter", transmitters |-> trs, channels |-> ch,
                        total_tests |-> tests, t |-> 1, n |-> 0, memory_sets |-> <<>>,
                        next_pass |-> Unbound, average_memory |-> <<>>,
                        obs_date |-> Num(0), shift_times |-> <<>>, tables |-> 0,
                        raised |-> "", none_at |-> 0]
    /\ convert_call = Idle /\ channel_call = Idle /\ freqs_call = Idle
    /\ graph_call = Idle /\ times_call = Idle /\ pass_call = Idle

Rest == <<convert_call, channel_call, freqs_call, graph_call, times_call, pass_call>>

\* Lines 383-387: the next transmitter, or the end of the loop.
MainTransmitter ==
    /\ main_call.pc = "transmitter"
    /\ main_call' =
           IF main_call.t > Len(main_call.transmitters)
           THEN [main_call EXCEPT !.pc = "done"]
           ELSE [main_call EXCEPT !.pc = "tests", !.memory_sets = <<>>, !.n = 0]
    /\ UNCHANGED Rest

\* Lines 393-400: one round of the loop over the passes to average.
MainTest ==
    /\ main_call.pc = "tests"
    /\ main_call.n < main_call.total_tests
    /\ \E answers \in MainAnswers, v_aos \in MainAosVels, v_los \in MainLosVels :
           LET tr == main_call.transmitters[main_call.t]
               r  == next_high_pass(answers, MainPassLength, main_call.obs_date,
                                    main_min_elevation, default_limit)
               f  == compute_doppler_freqs(v_aos, v_los, main_call.channels,
                                           tr.downlink, tr.uplink)
           IN  main_call' =
                 IF ~r.returned
                 THEN [main_call EXCEPT !.pc = "hung", !.obs_date = r.obs_date]
                 ELSE IF r.result # None
                 THEN IF f.raised # ""
                      THEN [main_call EXCEPT !.pc = "crashed", !.raised = f.raised,
                                             !.next_pass = r.result,
                                             !.obs_date = r.result[5]]
                      ELSE [main_call EXCEPT !.next_pass = r.result,
                                             !.obs_date = r.result[5],
                                             !.memory_sets = Append(@, f.mems),
                                             !.n = @ + 1]
                 ELSE [main_call EXCEPT !.pc = "check", !.next_pass = None,
                                        !.obs_date = r.obs_date,
                                        !.none_at = main_call.t]
    /\ UNCHANGED Rest

\* Lines 402-418, reached when the loop ends or breaks.
MainAverage ==
    /\ \/ main_call.pc = "check"
       \/ main_call.pc = "tests" /\ main_call.n >= main_call.total_tests
    /\ main_call' =
           IF main_call.next_pass = Unbound
           THEN [main_call EXCEPT !.pc = "crashed", !.raised = "UnboundLocalError"]
           ELSE IF second_break(main_call.next_pass)
           THEN [main_call EXCEPT !.pc = "done"]
           ELSE IF main_call.total_tests = 0
           THEN [main_call EXCEPT !.pc = "crashed", !.raised = "ZeroDivisionError"]
           ELSE [main_call EXCEPT
                    !.pc = "times",
                    !.average_memory = average_memory(main_call.memory_sets,
                                           main_call.channels, main_call.total_tests),
                    !.tables = @ + 1]
    /\ UNCHANGED Rest

\* Lines 423-436: a fresh observer, the next high pass and its switch times.
MainTimes ==
    /\ main_call.pc = "times"
    /\ \E answers \in MainAnswers, velocity \in PassVels :
           LET tr == main_call.transmitters[main_call.t]
               r  == next_high_pass(answers, MainPassLength, Num(0),
                                    main_min_elevation, default_limit)
               intervals == RFloorDiv(RSub(r.result[5], r.result[1]), SECOND)
           IN  main_call' =
                 IF ~r.returned
                 THEN [main_call EXCEPT !.pc = "hung", !.obs_date = r.obs_date]
                 ELSE IF r.result = None
                 THEN [main_call EXCEPT !.pc = "crashed", !.raised = "TypeError",
                                        !.next_pass = None, !.obs_date = r.obs_date]
                 ELSE [main_call EXCEPT
                          !.pc = "transmitter",
                          !.t = @ + 1,
                          !.next_pass = r.result,
                          !.obs_date =
                              IF intervals > 0
                              THEN RAdd(r.result[1], RMul(Num(intervals - 1), SECOND))
                              ELSE r.result[5],
                          !.shift_times =
                              compute_shift_times([k \in 1..intervals |-> velocity],
                                  r.result[1], r.result[5],
                                  main_call.average_memory, tr.downlink, tr.uplink)]
    /\ UNCHANGED Rest

MainNext == MainTransmitter \/ MainTest \/ MainAverage \/ MainTimes

MainSpec == MainInit /\ [][MainNext]_vars

\* The arithmetic mean of channel c, side `side`, over the tables computed.
Mean(memory_sets, c, side) ==
    RDiv(SumSets(memory_sets, c, side), Num(Len(memory_sets)))

\* C8: whenever the table of recommended channels is computed memory_sets
\* holds exactly total_tests tables and every averaged frequency is the mean of
\* that channel over them; once one of the pass lookups of the averaging loop
\* returned None no table is computed for that transmitter and no later
\* transmitter is processed.
MainAveragesAllPasses ==
    /\ main_call.pc = "times" =>
         /\ Len(main_call.memory_sets) = main_call.total_tests
         /\ Len(main_call.average_memory) = main_call.channels
         /\ \A c \in 1..main_call.channels : \A side \in 1..2 :
                main_call.average_memory[c][side] = Mean(main_call.memory_sets, c, side)
    /\ main_call.none_at # 0 =>
         /\ main_call.pc \in {"check", "done"}
         /\ main_call.t = main_call.none_at
         /\ main_call.tables = main_call.none_at - 1

\* The table of a second transmitter, averaged over two different tables.
MainAveragesWitness ==
    /\ main_call.pc = "times"
    /\ main_call.t = 2
    /\ main_call.total_tests = 2
    /\ main_call.memory_sets[1] # main_call.memory_sets[2]
    /\ main_call.tables = 2

====
